---- MODULE Spec2Model ----
(***************************************************************************)
(* A model of copy_schedule.py: the one-way mirror of an Outlook calendar  *)
(* into a Google calendar.  Names are sequences of tokens, so that the     *)
(* sync-origin suffix can be appended and tested; a datetime is a record   *)
(* of a day number, an hour of the day and a tzinfo; ISO strings are       *)
(* sequences <<day, "T", hour>> with an optional offset token.             *)
(***************************************************************************)
EXTENDS Integers, Sequences, FiniteSets, TLC

VARIABLES
    today,          \* day number of datetime.now().date()
    outlook,        \* calendar.Items of the Outlook default calendar folder
    gstore,         \* the events resource of the Google primary calendar
    token,          \* state of the file token.pickle
    run,            \* "first" or "second" invocation of the script
    pc,             \* position inside copy_schedule
    outlook_events, \* local of copy_schedule
    google_events,  \* local of copy_schedule
    add_events,     \* local of copy_schedule
    remove_events,  \* local of copy_schedule
    idx,            \* position of the running for loop (1-based)
    log,            \* calls issued to the two backends in this run
    flowCount,      \* times flow.run_local_server() ran in this run
    error,          \* the step whose exception ended the run, or NoError
    nextId,         \* the Google server's id counter
    firstOk,        \* the first run ended at its last line
    tokenBefore,    \* token.pickle as GoogleCalendar.connect found it in this run
    u_op, u_a, u_b, u_res, u_calls   \* a single call of a method under test

vars == <<today, outlook, gstore, token, run, pc, outlook_events, google_events,
          add_events, remove_events, idx, log, flowCount, error, nextId, firstOk,
          tokenBefore, u_op, u_a, u_b, u_res, u_calls>>

runVars == <<today, outlook, gstore, token, run, pc, outlook_events, google_events,
             add_events, remove_events, idx, log, flowCount, error, nextId, firstOk,
             tokenBefore>>

unitVars == <<u_op, u_a, u_b, u_res, u_calls>>

----------------------------------------------------------------------------
\* Bounds of the model
MaxSrc == 2        \* items in the Outlook folder
MaxDst == 2        \* events in the Google calendar before the first run

\* Program constants
TIMEZONE == "Asia/Tokyo"
UtcOffsetHours == 9          \* the UTC offset of TIMEZONE
BACK_DAYS == 7
AHEAD_DAYS == 30

None == "None"               \* Python's None
NoTz == "naive"              \* tzinfo=None
NoError == "none"
SUFFIX == <<" (Outlook)">>

Truthy(x) == x \notin {None, ""}

----------------------------------------------------------------------------
\* datetime

DateTime(d, h, tz) == [day |-> d, hour |-> h, tzinfo |-> tz]

ReplaceTzNone(dt) == [dt EXCEPT !.tzinfo = NoTz]

OffsetToken(tz) == IF tz = TIMEZONE THEN "+09:00" ELSE tz

\* datetime.isoformat()
IsoFormat(dt) ==
    <<dt.day, "T", dt.hour>> \o
        (IF dt.tzinfo = NoTz THEN <<>> ELSE <<OffsetToken(dt.tzinfo)>>)

\* date.isoformat()
DateIsoFormat(dt) == <<dt.day>>

\* datetime.fromisoformat()
FromIsoFormat(s) ==
    IF Len(s) = 1 THEN DateTime(s[1], 0, NoTz)
    ELSE IF Len(s) = 3 THEN DateTime(s[1], s[3], NoTz)
    ELSE DateTime(s[1], s[3], IF s[4] = "+09:00" THEN TIMEZONE ELSE s[4])

\* datetime.time(), a datetime.time object; a str is a different type
Time(dt) == [type |-> "time", hour |-> dt.hour]
Str(s) == [type |-> "str", val |-> s]

\* Python's == between a datetime.time and another value
PyEq(x, y) == x.type = y.type /\ x = y

----------------------------------------------------------------------------
\* class Event

EndsWith(name, suffix) ==
    /\ Len(name) >= Len(suffix)
    /\ SubSeq(name, Len(name) - Len(suffix) + 1, Len(name)) = suffix

\* Event.__init__ that never appends the suffix
EventInitNoSuffix(name, location, start_time, end_time, detail, event_id) ==
    [name |-> name, location |-> location,
     start_time |-> ReplaceTzNone(start_time),
     end_time |-> ReplaceTzNone(end_time),
     detail |-> detail, event_id |-> event_id]

EventInit(name, location, start_time, end_time, detail, event_id) ==
    [name |-> name \o (IF Truthy(event_id) THEN <<>> ELSE SUFFIX),
     location |-> location,
     start_time |-> ReplaceTzNone(start_time),
     end_time |-> ReplaceTzNone(end_time),
     detail |-> detail,
     event_id |-> event_id]

\* an equality that also compares event_id
EventEqWithId(a, b) == a = b

EventEq(a, b) ==
    /\ a.name = b.name
    /\ a.location = b.location
    /\ IsoFormat(a.start_time) = IsoFormat(b.start_time)
    /\ IsoFormat(a.end_time) = IsoFormat(b.end_time)
    /\ a.detail = b.detail

\* event in events
Contains(events, e) == \E i \in 1..Len(events) : EventEq(events[i], e)

\* events.remove(e), for e in events: the first equal entry goes
ListRemove(events, e) ==
    LET i == CHOOSE k \in 1..Len(events) :
                 /\ EventEq(events[k], e)
                 /\ \A j \in 1..(k - 1) : ~EventEq(events[j], e)
    IN SubSeq(events, 1, i - 1) \o SubSeq(events, i + 1, Len(events))

----------------------------------------------------------------------------
\* class OutlookCalendar

\* start_date.date().strftime("%m/%d/%Y 0:00")
StrfDate(dt) == <<dt.day, "0:00">>

\* the value Outlook reads from such a string: local midnight of that day
RestrictBound(s) == s[1] * 24

LocalHours(dt) == dt.day * 24 + dt.hour

RECURSIVE InsertByStart(_, _)
InsertByStart(sorted, item) ==
    IF sorted = <<>> THEN <<item>>
    ELSE IF LocalHours(item.start) < LocalHours(Head(sorted).start)
         THEN <<item>> \o sorted
         ELSE <<Head(sorted)>> \o InsertByStart(Tail(sorted), item)

\* items.Sort("[Start]")
RECURSIVE SortByStart(_)
SortByStart(items) ==
    IF items = <<>> THEN <<>>
    ELSE InsertByStart(SortByStart(SubSeq(items, 1, Len(items) - 1)),
                       items[Len(items)])

RECURSIVE SelectSeq2(_, _, _)
SelectSeq2(items, lo, hi) ==
    IF items = <<>> THEN <<>>
    ELSE (IF /\ LocalHours(Head(items).start) >= lo
             /\ LocalHours(Head(items).start) <= hi
          THEN <<Head(items)>> ELSE <<>>) \o SelectSeq2(Tail(items), lo, hi)

\* items.Restrict("[Start] >= '...' AND [Start] <= '...'")
Restrict(items, lo, hi) == SelectSeq2(items, RestrictBound(lo), RestrictBound(hi))

OutlookEvent(item) ==
    EventInit(item.subject, item.location, item.start, item.end, item.body, None)

OutlookGetEvents(items, start_date, end_date) ==
    LET found == Restrict(SortByStart(items), StrfDate(start_date), StrfDate(end_date))
    IN [i \in 1..Len(found) |-> OutlookEvent(found[i])]

----------------------------------------------------------------------------
\* class GoogleCalendar

\* the instant (hours, UTC) of an RFC 3339 timestamp with an offset
Rfc3339Hours(s) ==
    s[1] * 24 + s[3] - (IF s[4] = "Z" THEN 0 ELSE UtcOffsetHours)

\* the instant (hours, UTC) of a stored start or end: a local value of timeZone
StoredHours(t) ==
    LET dt == FromIsoFormat(IF "dateTime" \in DOMAIN t THEN t.dateTime ELSE t.date)
    IN LocalHours(dt) - UtcOffsetHours

\* what events().list(timeZone=TIMEZONE) renders of a stored start or end
Rendered(t) ==
    IF "dateTime" \in DOMAIN t
    THEN [dateTime |-> t.dateTime \o <<"+09:00">>, timeZone |-> t.timeZone]
    ELSE [date |-> t.date]

RenderItem(g) == [g EXCEPT !.start = Rendered(@), !.end = Rendered(@)]

\* events().list(timeMin=, timeMax=).execute(): the items of the response
ListItems(store, timeMin, timeMax) ==
    LET keep == SelectSeq(store, LAMBDA g :
                    /\ StoredHours(g.start) >= Rfc3339Hours(timeMin)
                    /\ StoredHours(g.start) < Rfc3339Hours(timeMax))
    IN [i \in 1..Len(keep) |-> RenderItem(keep[i])]

\* d.get(key) or d.get(other)
DateTimeOrDate(t) == IF "dateTime" \in DOMAIN t THEN t.dateTime ELSE t.date

\* d.get(key, default), an absent key being None
Get(v, default) == IF v = None THEN default ELSE v

GoogleEvent(gglev) ==
    EventInit(gglev.summary,
              Get(gglev.location, ""),
              FromIsoFormat(DateTimeOrDate(gglev.start)),
              FromIsoFormat(DateTimeOrDate(gglev.end)),
              Get(gglev.description, ""),
              gglev.id)

GoogleGetEvents(store, start_date, end_date) ==
    LET gglevs == ListItems(store, IsoFormat(start_date) \o <<"Z">>,
                                   IsoFormat(end_date) \o <<"Z">>)
        live == SelectSeq(gglevs, LAMBDA g : g.status # "cancelled")
    IN [i \in 1..Len(live) |-> GoogleEvent(live[i])]

\* the condition of add_event: a datetime.time compared with a str
IsAllDay(event) ==
    /\ PyEq(Time(event.start_time), Str("00:00:00"))
    /\ PyEq(Time(event.end_time), Str("00:00:00"))

\* a body that leaves the location out
AddBodyNoLocation(event) ==
    [summary |-> event.name,
     location |-> "",
     start |-> [dateTime |-> IsoFormat(event.start_time), timeZone |-> TIMEZONE],
     end |-> [dateTime |-> IsoFormat(event.end_time), timeZone |-> TIMEZONE],
     description |-> event.detail]

\* the body add_event inserts
AddBody(event) ==
    [summary |-> event.name,
     location |-> event.location,
     start |-> IF IsAllDay(event)
               THEN [date |-> DateIsoFormat(event.start_time), timeZone |-> TIMEZONE]
               ELSE [dateTime |-> IsoFormat(event.start_time), timeZone |-> TIMEZONE],
     end |-> IF IsAllDay(event)
             THEN [date |-> DateIsoFormat(event.end_time), timeZone |-> TIMEZONE]
             ELSE [dateTime |-> IsoFormat(event.end_time), timeZone |-> TIMEZONE],
     description |-> event.detail]

\* the resource events().insert(body=) stores: empty strings are not kept
Inserted(body, id) ==
    [id |-> id, status |-> "confirmed", summary |-> body.summary,
     location |-> IF body.location = "" THEN None ELSE body.location,
     start |-> body.start, end |-> body.end,
     description |-> IF body.description = "" THEN None ELSE body.description]

\* remove_event without the test of event_id
RemoveCallsAlways(event) == <<[op |-> "delete", eventId |-> event.event_id]>>

\* the calls remove_event issues
RemoveCalls(event) ==
    IF Truthy(event.event_id)
    THEN <<[op |-> "delete", eventId |-> event.event_id]>>
    ELSE <<>>

\* events().delete(eventId=).execute() on the store
Deleted(store, id) == SelectSeq(store, LAMBDA g : g.id # id)

----------------------------------------------------------------------------
\* copy_schedule, lines 225-232

\* a removal set that starts from every destination event
CandidatesAll(events) == events

\* remove_events = [x for x in google_events if x.name.endswith(" (Outlook)")]
Candidates(events) == SelectSeq(events, LAMBDA x : EndsWith(x.name, SUFFIX))

\* a loop body that does not consume the match
ReconcileStepKeep(acc, event) ==
    IF Contains(acc.remove, event)
    THEN acc
    ELSE [acc EXCEPT !.add = Append(@, event)]

\* the body of "for event in outlook_events"
ReconcileStep(acc, event) ==
    IF Contains(acc.remove, event)
    THEN [acc EXCEPT !.remove = ListRemove(@, event)]
    ELSE [acc EXCEPT !.add = Append(@, event)]

RECURSIVE ReconcileLoop(_, _)
ReconcileLoop(acc, events) ==
    IF events = <<>> THEN acc
    ELSE ReconcileLoop(ReconcileStep(acc, Head(events)), Tail(events))

Reconcile(src, dst) ==
    ReconcileLoop([add |-> <<>>, remove |-> Candidates(dst)], src)

----------------------------------------------------------------------------
\* The calendars the script may find

Today0 == BACK_DAYS

StartDate(t) == DateTime(t - BACK_DAYS, 0, NoTz)
EndDate(t) == DateTime(t + AHEAD_DAYS + 1, 0, NoTz)

Item(subject, location, d1, h1, d2, h2, body) ==
    [subject |-> subject, location |-> location,
     start |-> DateTime(d1, h1, "UTC"), end |-> DateTime(d2, h2, "UTC"),
     body |-> body]

\* Appointments of the Outlook folder: in the middle of the window, an
\* all-day one, one in the first morning of the window, one that starts at
\* the upper bound of the window, and one past it.
OutlookItemPool(t) ==
    LET lo == t - BACK_DAYS
        hi == t + AHEAD_DAYS + 1
    IN << Item(<<"A">>, "R", t, 10, t, 11, ""),
          Item(<<"B">>, "", t, 0, t + 1, 0, "d"),
          Item(<<"A">>, "R", lo, 7, lo, 8, ""),
          Item(<<"A">>, "R", hi, 0, hi, 1, ""),
          Item(<<"A">>, "R", hi, 10, hi, 11, "") >>

Timed(d, h) == [dateTime |-> <<d, "T", h>>, timeZone |-> TIMEZONE]
AllDay(d) == [date |-> <<d>>, timeZone |-> TIMEZONE]

Gglev(status, summary, location, start, end, description) ==
    [id |-> None, status |-> status, summary |-> summary, location |-> location,
     start |-> start, end |-> end, description |-> description]

\* Events of the Google calendar: a mirror of the first appointment, the same
\* cancelled, a native event, a mirror of the all-day appointment stored with
\* dates, and a mirror of an appointment that is gone.
GoogleEventPool(t) ==
    << Gglev("confirmed", <<"A">> \o SUFFIX, "R", Timed(t, 10), Timed(t, 11), None),
       Gglev("cancelled", <<"A">> \o SUFFIX, "R", Timed(t, 10), Timed(t, 11), None),
       Gglev("confirmed", <<"N">>, None, Timed(t, 10), Timed(t, 11), None),
       Gglev("confirmed", <<"B">> \o SUFFIX, None, AllDay(t), AllDay(t + 1), "d"),
       Gglev("confirmed", <<"C">> \o SUFFIX, None, Timed(t, 10), Timed(t, 11), None) >>

\* ids the Google server hands out
IdPool == << "g01", "g02", "g03", "g04", "g05", "g06", "g07", "g08",
             "g09", "g10", "g11", "g12", "g13", "g14", "g15", "g16" >>

\* non-decreasing index sequences: the multisets over 1..n of size <= max
Picks(n, max) ==
    UNION { { p \in [1..k -> 1..n] : \A i \in 1..(k - 1) : p[i] <= p[i + 1] }
            : k \in 0..max }

TokenStates == {"absent", "corrupt", "valid", "expired_refreshable",
                "expired_not_refreshable"}

UnitInit ==
    /\ u_op = "none"
    /\ u_a = None
    /\ u_b = None
    /\ u_res = None
    /\ u_calls = <<>>

Init ==
    /\ today = Today0
    /\ \E p \in Picks(Len(OutlookItemPool(Today0)), MaxSrc) :
           outlook = [i \in 1..Len(p) |-> OutlookItemPool(Today0)[p[i]]]
    /\ \E p \in Picks(Len(GoogleEventPool(Today0)), MaxDst) :
           gstore = [i \in 1..Len(p) |->
                        [GoogleEventPool(Today0)[p[i]] EXCEPT !.id = IdPool[i]]]
    /\ nextId = Len(gstore) + 1
    /\ token \in TokenStates
    /\ run = "first"
    /\ pc = "outlook_connect"
    /\ outlook_events = <<>>
    /\ google_events = <<>>
    /\ add_events = <<>>
    /\ remove_events = <<>>
    /\ idx = 1
    /\ log = <<>>
    /\ flowCount = 0
    /\ error = NoError
    /\ firstOk = FALSE
    /\ tokenBefore = None
    /\ UnitInit

Raise(step) ==
    /\ pc' = "raised"
    /\ error' = step

----------------------------------------------------------------------------
\* copy_schedule, one action per call it makes

\* line 213
OutlookConnect ==
    /\ pc = "outlook_connect"
    /\ \/ /\ pc' = "outlook_get"
          /\ error' = error
       \/ Raise("outlook_connect")
    /\ UNCHANGED <<today, outlook, gstore, token, run, outlook_events, google_events,
                   add_events, remove_events, idx, log, flowCount, nextId, firstOk>>
    /\ UNCHANGED <<tokenBefore>>
    /\ UNCHANGED unitVars

\* line 216
OutlookGet ==
    /\ pc = "outlook_get"
    /\ log' = Append(log, [op |-> "outlook_get_events"])
    /\ \/ /\ outlook_events' = OutlookGetEvents(outlook, StartDate(today), EndDate(today))
          /\ pc' = "google_connect"
          /\ error' = error
       \/ /\ Raise("outlook_get_events")
          /\ UNCHANGED outlook_events
    /\ UNCHANGED <<today, outlook, gstore, token, run, google_events,
                   add_events, remove_events, idx, flowCount, nextId, firstOk>>
    /\ UNCHANGED <<tokenBefore>>
    /\ UNCHANGED unitVars

\* what pickle.load gives for each state of token.pickle; a damaged file
\* fails to load, or loads as something that is no Credentials object
LoadOutcomes(tok) ==
    IF tok = "corrupt" THEN {"raise", "falsy", "garbage"}
    ELSE IF tok = "absent" THEN {"none"}
    ELSE {tok}

\* GoogleCalendar.connect, lines 96-116: the step that raised (or NoError),
\* the runs of the interactive flow, and the token file it leaves
ConnectResult(tok, creds, refreshOk, flowOk, buildOk) ==
    LET truthy == creds \notin {"none", "falsy"}
        valid == creds = "valid"
        refreshable == creds = "expired_refreshable"
        written == "valid"
    IN IF creds = "raise"
       THEN [error |-> "pickle_load", flows |-> 0, token |-> tok]
       ELSE IF truthy /\ creds = "garbage"
       THEN [error |-> "creds_valid", flows |-> 0, token |-> tok]
       ELSE IF ~truthy \/ ~valid
       THEN IF truthy /\ refreshable
            THEN IF ~refreshOk
                 THEN [error |-> "refresh", flows |-> 0, token |-> tok]
                 ELSE [error |-> IF buildOk THEN NoError ELSE "build",
                       flows |-> 0, token |-> written]
            ELSE IF ~flowOk
                 THEN [error |-> "run_local_server", flows |-> 1, token |-> tok]
                 ELSE [error |-> IF buildOk THEN NoError ELSE "build",
                       flows |-> 1, token |-> written]
       ELSE [error |-> IF buildOk THEN NoError ELSE "build",
             flows |-> 0, token |-> tok]

\* a connect whose exception is caught by the caller
GoogleConnectSwallow ==
    /\ pc = "google_connect"
    /\ \E creds \in LoadOutcomes(token), refreshOk, flowOk, buildOk \in BOOLEAN :
          LET r == ConnectResult(token, creds, refreshOk, flowOk, buildOk)
          IN /\ flowCount' = flowCount + r.flows
             /\ token' = r.token
             /\ tokenBefore' = token
             /\ pc' = "google_get"
             /\ error' = r.error
    /\ UNCHANGED <<today, outlook, gstore, run, outlook_events, google_events,
                   add_events, remove_events, idx, log, nextId, firstOk>>
    /\ UNCHANGED unitVars

\* line 219
GoogleConnect ==
    /\ pc = "google_connect"
    /\ \E creds \in LoadOutcomes(token), refreshOk, flowOk, buildOk \in BOOLEAN :
          LET r == ConnectResult(token, creds, refreshOk, flowOk, buildOk)
          IN /\ flowCount' = flowCount + r.flows
             /\ token' = r.token
             /\ tokenBefore' = token
             /\ IF r.error = NoError
                THEN pc' = "google_get" /\ error' = error
                ELSE Raise(r.error)
    /\ UNCHANGED <<today, outlook, gstore, run, outlook_events, google_events,
                   add_events, remove_events, idx, log, nextId, firstOk>>
    /\ UNCHANGED unitVars

\* line 222
GoogleGet ==
    /\ pc = "google_get"
    /\ log' = Append(log, [op |-> "google_get_events"])
    /\ \/ /\ google_events' = GoogleGetEvents(gstore, StartDate(today), EndDate(today))
          /\ pc' = "reconcile"
          /\ error' = error
       \/ /\ Raise("google_get_events")
          /\ UNCHANGED google_events
    /\ UNCHANGED <<today, outlook, gstore, token, run, outlook_events,
                   add_events, remove_events, idx, flowCount, nextId, firstOk>>
    /\ UNCHANGED <<tokenBefore>>
    /\ UNCHANGED unitVars

\* lines 225-232
ReconcileEvents ==
    /\ pc = "reconcile"
    /\ LET r == Reconcile(outlook_events, google_events)
       IN /\ add_events' = r.add
          /\ remove_events' = r.remove
    /\ pc' = "add"
    /\ idx' = 1
    /\ UNCHANGED <<today, outlook, gstore, token, run, outlook_events, google_events,
                   log, flowCount, error, nextId, firstOk>>
    /\ UNCHANGED <<tokenBefore>>
    /\ UNCHANGED unitVars

\* an iteration whose exception is caught, the loop going on
AddEventCaught ==
    /\ pc = "add"
    /\ idx <= Len(add_events)
    /\ nextId <= Len(IdPool)
    /\ LET event == add_events[idx]
           call == [op |-> "insert", event |-> event, body |-> AddBody(event)]
       IN \/ /\ log' = Append(log, call @@ [ok |-> TRUE, id |-> IdPool[nextId]])
             /\ gstore' = Append(gstore, Inserted(call.body, IdPool[nextId]))
             /\ nextId' = nextId + 1
          \/ /\ log' = Append(log, call @@ [ok |-> FALSE, id |-> None])
             /\ UNCHANGED <<gstore, nextId>>
    /\ idx' = idx + 1
    /\ UNCHANGED <<today, outlook, token, run, outlook_events, google_events,
                   add_events, remove_events, flowCount, firstOk, pc, error>>
    /\ UNCHANGED <<tokenBefore>>
    /\ UNCHANGED unitVars

\* lines 234-235: one iteration, add_event(event)
AddEvent ==
    /\ pc = "add"
    /\ idx <= Len(add_events)
    /\ nextId <= Len(IdPool)
    /\ LET event == add_events[idx]
           call == [op |-> "insert", event |-> event, body |-> AddBody(event)]
       IN \/ /\ log' = Append(log, call @@ [ok |-> TRUE, id |-> IdPool[nextId]])
             /\ gstore' = Append(gstore, Inserted(call.body, IdPool[nextId]))
             /\ nextId' = nextId + 1
             /\ idx' = idx + 1
             /\ UNCHANGED <<pc, error>>
          \/ /\ log' = Append(log, call @@ [ok |-> FALSE, id |-> None])
             /\ Raise("add_event")
             /\ UNCHANGED <<gstore, nextId, idx>>
    /\ UNCHANGED <<today, outlook, token, run, outlook_events, google_events,
                   add_events, remove_events, flowCount, firstOk>>
    /\ UNCHANGED <<tokenBefore>>
    /\ UNCHANGED unitVars

\* line 236: the loop is over
AddDone ==
    /\ pc = "add"
    /\ idx > Len(add_events)
    /\ pc' = "remove"
    /\ idx' = 1
    /\ UNCHANGED <<today, outlook, gstore, token, run, outlook_events, google_events,
                   add_events, remove_events, log, flowCount, error, nextId, firstOk>>
    /\ UNCHANGED <<tokenBefore>>
    /\ UNCHANGED unitVars

\* lines 238-239: one iteration, remove_event(event)
RemoveEvent ==
    /\ pc = "remove"
    /\ idx <= Len(remove_events)
    /\ \E ok \in BOOLEAN :
          LET event == remove_events[idx]
              calls == RemoveCalls(event)
          IN IF calls = <<>>
             THEN /\ idx' = idx + 1
                  /\ UNCHANGED <<log, gstore, pc, error>>
             ELSE /\ log' = Append(log, calls[1] @@ [ok |-> ok, event |-> event])
                  /\ IF ok
                     THEN /\ gstore' = Deleted(gstore, calls[1].eventId)
                          /\ idx' = idx + 1
                          /\ UNCHANGED <<pc, error>>
                     ELSE /\ Raise("remove_event")
                          /\ UNCHANGED <<gstore, idx>>
    /\ UNCHANGED <<today, outlook, token, run, outlook_events, google_events,
                   add_events, remove_events, flowCount, nextId, firstOk>>
    /\ UNCHANGED <<tokenBefore>>
    /\ UNCHANGED unitVars

\* line 240: the loop is over and the script ends
RemoveDone ==
    /\ pc = "remove"
    /\ idx > Len(remove_events)
    /\ pc' = "done"
    /\ firstOk' = (firstOk \/ run = "first")
    /\ UNCHANGED <<today, outlook, gstore, token, run, outlook_events, google_events,
                   add_events, remove_events, idx, log, flowCount, error, nextId>>
    /\ UNCHANGED <<tokenBefore>>
    /\ UNCHANGED unitVars

\* line 243, again: the script is started once more on the same day, with the
\* Outlook folder as it was
NextRun ==
    /\ pc = "done"
    /\ run = "first"
    /\ run' = "second"
    /\ pc' = "outlook_connect"
    /\ outlook_events' = <<>>
    /\ google_events' = <<>>
    /\ add_events' = <<>>
    /\ remove_events' = <<>>
    /\ idx' = 1
    /\ log' = <<>>
    /\ flowCount' = 0
    /\ tokenBefore' = None
    /\ UNCHANGED <<today, outlook, gstore, token, error, nextId, firstOk>>
    /\ UNCHANGED unitVars

Next ==
    \/ OutlookConnect
    \/ OutlookGet
    \/ GoogleConnect
    \/ GoogleGet
    \/ ReconcileEvents
    \/ AddEvent
    \/ AddDone
    \/ RemoveEvent
    \/ RemoveDone
    \/ NextRun

Spec == Init /\ [][Next]_vars

----------------------------------------------------------------------------
\* Single calls of Event.__eq__ and GoogleCalendar.remove_event

\* arguments of Event(...)
EventArgs ==
    [name : {<<"A">>, <<"A">> \o SUFFIX, <<"B">>},
     location : {"", "R"},
     start_time : {DateTime(Today0, 10, "UTC"), DateTime(Today0, 0, NoTz)},
     end_time : {DateTime(Today0, 11, "UTC"), DateTime(Today0 + 1, 0, NoTz)},
     detail : {"", "d"},
     event_id : {None, IdPool[1], IdPool[2]}]

NewEvent(a) ==
    EventInit(a.name, a.location, a.start_time, a.end_time, a.detail, a.event_id)

InitUnit ==
    /\ today = Today0
    /\ outlook = <<>>
    /\ \E p \in Picks(Len(GoogleEventPool(Today0)), MaxDst) :
           gstore = [i \in 1..Len(p) |->
                        [GoogleEventPool(Today0)[p[i]] EXCEPT !.id = IdPool[i]]]
    /\ nextId = Len(gstore) + 1
    /\ token = "valid"
    /\ run = "first"
    /\ pc = "unit"
    /\ outlook_events = <<>>
    /\ google_events = <<>>
    /\ add_events = <<>>
    /\ remove_events = <<>>
    /\ idx = 1
    /\ log = <<>>
    /\ flowCount = 0
    /\ error = NoError
    /\ firstOk = FALSE
    /\ tokenBefore = None
    /\ UnitInit

\* a == b for two Events
UnitEq ==
    /\ u_op = "none"
    /\ \E a, b \in EventArgs :
          /\ u_a' = NewEvent(a)
          /\ u_b' = NewEvent(b)
          /\ u_res' = EventEq(NewEvent(a), NewEvent(b))
    /\ u_op' = "eq"
    /\ UNCHANGED u_calls
    /\ UNCHANGED runVars

\* remove_event(event) for an Event of either adapter
UnitRemove ==
    /\ u_op = "none"
    /\ \E origin \in {"source", "destination"}, ok \in BOOLEAN :
          \E event \in IF origin = "source"
                       THEN {OutlookEvent(OutlookItemPool(today)[i]) :
                                 i \in 1..Len(OutlookItemPool(today))}
                       ELSE {GoogleEvent(RenderItem(gstore[i])) : i \in 1..Len(gstore)} :
             LET calls == RemoveCalls(event)
             IN /\ u_a' = event
                /\ u_b' = origin
                /\ u_calls' = calls
                /\ IF calls = <<>>
                   THEN /\ u_res' = "returned"
                        /\ UNCHANGED gstore
                   ELSE IF ok
                   THEN /\ u_res' = "returned"
                        /\ gstore' = Deleted(gstore, calls[1].eventId)
                   ELSE /\ u_res' = "raised"
                        /\ UNCHANGED gstore
    /\ u_op' = "remove"
    /\ UNCHANGED <<today, outlook, token, run, pc, outlook_events, google_events,
                   add_events, remove_events, idx, log, flowCount, error, nextId,
                   firstOk, tokenBefore>>

NextUnit == UnitEq \/ UnitRemove

SpecUnit == InitUnit /\ [][NextUnit]_vars

----------------------------------------------------------------------------
\* Properties

HasSuffix(e) == EndsWith(e.name, SUFFIX)

Reconciled ==
    \/ pc \in {"add", "remove", "done"}
    \/ pc = "raised" /\ error \in {"add_event", "remove_event"}

Calls(op) == {i \in 1..Len(log) : log[i].op = op}

Count(events, e) == Cardinality({i \in 1..Len(events) : EventEq(events[i], e)})

Max(a, b) == IF a >= b THEN a ELSE b

Midnight(dt) == dt.hour = 0

ConnectErrors ==
    {"outlook_connect", "pickle_load", "creds_valid", "refresh",
     "run_local_server", "build"}

GoogleConnectErrors == ConnectErrors \ {"outlook_connect"}

FetchErrors == {"outlook_get_events", "google_get_events"}

\* C1: no destination event without the suffix " (Outlook)" is ever in the
\* removal set or passed to remove_event; when no destination event read
\* carries the suffix, the removal set is empty.
C1_OnlySuffixedRemoved ==
    /\ \A i \in 1..Len(remove_events) : HasSuffix(remove_events[i])
    /\ \A i \in Calls("delete") :
          /\ HasSuffix(log[i].event)
          /\ \E j \in 1..Len(google_events) :
                google_events[j].event_id = log[i].eventId /\ HasSuffix(google_events[j])
    /\ (\A j \in 1..Len(google_events) : ~HasSuffix(google_events[j]))
          => remove_events = <<>>

\* a run that deleted a mirrored event and left a native one alone
C1_Witness ==
    /\ pc = "done"
    /\ Calls("delete") # {}
    /\ \E j \in 1..Len(google_events) :
          /\ ~HasSuffix(google_events[j])
          /\ \E k \in 1..Len(gstore) : gstore[k].id = google_events[j].event_id

\* C2: once the reconciliation is done, for every event c the add set holds
\* max(0, s - d) events equal to c and the removal set max(0, d - s), s the
\* number of source events equal to c and d the number of suffix-carrying
\* destination events equal to c; the two sets hold nothing else.
C2_MultisetDifference ==
    Reconciled =>
        LET cand == SelectSeq(google_events, HasSuffix)
            classes == {outlook_events[i] : i \in 1..Len(outlook_events)}
                       \cup {cand[i] : i \in 1..Len(cand)}
        IN /\ \A c \in classes :
                 LET sc == Count(outlook_events, c)
                     dc == Count(cand, c)
                 IN /\ Count(add_events, c) = Max(0, sc - dc)
                    /\ Count(remove_events, c) = Max(0, dc - sc)
           /\ \A i \in 1..Len(add_events) :
                 \E j \in 1..Len(outlook_events) : add_events[i] = outlook_events[j]
           /\ \A i \in 1..Len(remove_events) :
                 \E j \in 1..Len(cand) : remove_events[i] = cand[j]
           /\ outlook_events = <<>> => (add_events = <<>> /\ remove_events = cand)

\* a source event read twice with exactly one match in the destination: the
\* second occurrence is in the add set
C2_Witness ==
    /\ Reconciled
    /\ Len(outlook_events) = 2
    /\ EventEq(outlook_events[1], outlook_events[2])
    /\ Count(SelectSeq(google_events, HasSuffix), outlook_events[1]) = 1
    /\ add_events = <<outlook_events[2]>>
    /\ remove_events = <<>>

\* C3: add_event inserts a date-only body exactly when start_time and
\* end_time are both midnight, and a dateTime body otherwise.
C3_AllDayInsertedAsDate ==
    \A i \in Calls("insert") :
        LET allDay == Midnight(log[i].event.start_time)
                      /\ Midnight(log[i].event.end_time)
        IN /\ allDay <=> DOMAIN log[i].body.start = {"date", "timeZone"}
           /\ allDay <=> DOMAIN log[i].body.end = {"date", "timeZone"}
           /\ ~allDay <=> DOMAIN log[i].body.start = {"dateTime", "timeZone"}

\* the destination as the next read gives it once the removal set is deleted
\* and the add set inserted
AfterApply(dst, add, remove) ==
    LET kept == SelectSeq(dst, LAMBDA x :
                    \A i \in 1..Len(remove) : remove[i].event_id # x.event_id)
        made == [i \in 1..Len(add) |->
                    GoogleEvent(RenderItem(Inserted(AddBody(add[i]),
                                                    IdPool[Len(IdPool) - i + 1])))]
    IN kept \o made

\* C4: reconciling the same source against the destination with the removal
\* set deleted and the add set stored and read back gives two empty sets.
C4_Idempotent ==
    Reconciled =>
        Reconcile(outlook_events, AfterApply(google_events, add_events, remove_events))
            = [add |-> <<>>, remove |-> <<>>]

C4_Witness ==
    /\ Reconciled
    /\ add_events # <<>>
    /\ remove_events # <<>>
    /\ \E i \in 1..Len(add_events) : add_events[i].location # ""

\* C5: a == b exactly when name, location, ISO-rendered start_time and
\* end_time, and detail are equal; event_id plays no part.
C5_EqualityByContent ==
    u_op = "eq" =>
        /\ u_res <=> /\ u_a.name = u_b.name
                     /\ u_a.location = u_b.location
                     /\ IsoFormat(u_a.start_time) = IsoFormat(u_b.start_time)
                     /\ IsoFormat(u_a.end_time) = IsoFormat(u_b.end_time)
                     /\ u_a.detail = u_b.detail
        /\ [u_a EXCEPT !.event_id = None] = [u_b EXCEPT !.event_id = None] => u_res

\* an event read from the source equal to one carrying a destination id
C5_Witness ==
    /\ u_op = "eq"
    /\ u_res = TRUE
    /\ u_a.event_id = None
    /\ u_b.event_id # None

\* C6 as stated: a failed connect to either backend leaves the run without
\* any get_events, add_event or remove_event; a failed connect or get_events
\* leaves it without any add_event or remove_event.
C6_NoCallBeforeConnectFailure ==
    /\ error \in ConnectErrors => log = <<>>
    /\ error \in ConnectErrors \cup FetchErrors =>
          Calls("insert") \cup Calls("delete") = {}

\* C6 amended: a failed connect to Outlook leaves the run without any call; a
\* failed connect to Google leaves it with the Outlook get_events alone; a
\* failed connect or get_events leaves it without add_event and remove_event.
C6_NoWriteAfterFailure ==
    /\ error = "outlook_connect" => log = <<>>
    /\ error \in GoogleConnectErrors => log = <<[op |-> "outlook_get_events"]>>
    /\ error \in ConnectErrors \cup FetchErrors =>
          Calls("insert") \cup Calls("delete") = {}

C6_Witness ==
    /\ pc = "raised"
    /\ error \in GoogleConnectErrors
    /\ log = <<[op |-> "outlook_get_events"]>>
    /\ outlook_events # <<>>

\* C7: with token.pickle absent or corrupt, and no failure of the consent
\* flow or of build, connect runs the flow exactly once and completes; it
\* never runs the flow twice.
C7_ReauthorizeOnce ==
    /\ flowCount <= 1
    /\ (tokenBefore \in {"absent", "corrupt"} /\ error \notin {"run_local_server", "build"})
          => (flowCount = 1 /\ error \notin GoogleConnectErrors)

\* C8: remove_event issues no call and returns when event_id is absent, and
\* issues one delete of that id when it is present; an Event of the source
\* adapter is never deleted.
C8_RemoveNeedsId ==
    u_op = "remove" =>
        /\ u_a.event_id = None => (u_calls = <<>> /\ u_res = "returned")
        /\ u_a.event_id # None =>
              u_calls = <<[op |-> "delete", eventId |-> u_a.event_id]>>
        /\ u_b = "source" => u_calls = <<>>
        /\ u_res = "returned" =>
              \A i \in 1..Len(gstore) : gstore[i].id # u_a.event_id

C8_Witness ==
    /\ u_op = "remove"
    /\ u_b = "source"
    /\ u_a.event_id = None
    /\ u_calls = <<>>
    /\ gstore # <<>>

\* C9: in a run no add_event follows a remove_event; nothing is issued after
\* a failed add_event or remove_event; what was inserted before is still
\* stored and what was deleted before is still gone.
C9_FailureAbortsBatch ==
    /\ \A i \in Calls("delete") : \A j \in Calls("insert") : j < i
    /\ \A i \in Calls("insert") \cup Calls("delete") :
          ~log[i].ok => (i = Len(log) /\ pc = "raised")
    /\ \A i \in Calls("insert") :
          log[i].ok => \E k \in 1..Len(gstore) :
                          gstore[k] = Inserted(log[i].body, log[i].id)
    /\ \A i \in Calls("delete") :
          log[i].ok => \A k \in 1..Len(gstore) : gstore[k].id # log[i].eventId
    /\ (pc = "raised" /\ error = "add_event") =>
          (Calls("delete") = {} /\ Len(log) = idx + 2 /\ ~log[Len(log)].ok)

\* the second add_event failed after the first was stored
C9_Witness ==
    /\ pc = "raised"
    /\ error = "add_event"
    /\ idx = 2
    /\ remove_events # <<>>
    /\ \E k \in 1..Len(gstore) : gstore[k].id = log[3].id

\* C10: with every appointment of the Outlook folder starting inside the
\* window, a run that follows a completed run on the same day issues no
\* add_event and no remove_event.
C10_SecondRunIdle ==
    (/\ run = "second"
     /\ \A i \in 1..Len(outlook) :
           /\ LocalHours(outlook[i].start) >= LocalHours(StartDate(today))
           /\ LocalHours(outlook[i].start) <= LocalHours(EndDate(today)))
        => Calls("insert") \cup Calls("delete") = {}

====
